---- MODULE Spec2Model ----
(***************************************************************************)
(* Model of cmd/server/handlers.go of fugl: the canary server's handlers.  *)
(*                                                                         *)
(* ServerState holds the chain tip (latestProof, latestCanary) behind one  *)
(* sync.RWMutex.  SubmitHandler validates a submitted proof, saves it and  *)
(* replaces the tip; StatusHandler and LatestHandler read the tip.         *)
(*                                                                         *)
(* A raw proof string is written as the record of what it encodes: its     *)
(* version, its deadline and its previous-hash field (prev).  The prev     *)
(* field holds the hash of the empty string, the hash of a string posted   *)
(* before, or OwnHash: the hash of the very string that carries it.  The   *)
(* handler compares the previous field with the hash of the submitted      *)
(* string, so that last case is the one its linkage check lets through.    *)
(***************************************************************************)
EXTENDS Integers, Sequences, FiniteSets

\* ------------------------------------------------------------------ bounds
MaxTime == 2
MaxDeadline == 2
MaxCalls == 3
LiveCalls == 2

\* --------------------------------------------------------------- constants
CanaryVersion == 1
OtherVersion == CanaryVersion + 1
EmptyProof == [empty |-> TRUE]
Garbage == [garbage |-> TRUE]
Nil == [nil |-> TRUE]
NoLocker == 0
OwnHash == [own |-> TRUE]

Submitters == {1, 2}
Readers == {3}

\* fugl.HashString: deterministic, distinct strings give distinct hashes
HashString(str) == [sha |-> str]

VARIABLES
    latestProof,    \* ServerState.latestProof: newest proof, EmptyProof when none
    latestCanary,   \* ServerState.latestCanary: parsed newest proof, Nil when none
    wmu,            \* canaryLock: the submitter inside Lock()..Unlock(), or NoLocker
    readers,        \* canaryLock: the readers between RLock() and RUnlock()
    now,            \* the wall clock read by time.Now()
    store,          \* the store directory: proofs saved by SaveToDirectory, in order
    pc,             \* each handler invocation's position
    proof,          \* SubmitHandler: the submitted string (local proof)
    verdict,        \* SubmitHandler: the response given under the lock, "none" before
    tipAtLock,      \* SubmitHandler: the tip when Lock() returned
    err,            \* SubmitHandler: what SaveToDirectory returned (local err)
    resp,           \* StatusHandler/LatestHandler: the response body
    chain,          \* history: the accepted proofs and the clock at their commit
    calls           \* number of submissions received so far

vars == <<latestProof, latestCanary, wmu, readers, now, store, pc, proof,
          verdict, tipAtLock, err, resp, chain, calls>>

Tip == <<latestProof, latestCanary>>
EmptyTip == <<EmptyProof, Nil>>

\* fugl.OpenProof: whether the string decodes and its signature verifies
Verifies(str) == str # Garbage

\* fugl.OpenProof on a string that verifies: the canary it carries
OpenProof(str) ==
    [version |-> str.version,
     deadline |-> str.deadline,
     previous |-> IF str.prev = OwnHash THEN HashString(str) ELSE str.prev]

\* the strings a client can know of: those in flight and those accepted
Posted ==
    {proof[s] : s \in {x \in Submitters : pc[x] \notin {"idle", "deref"}}}
        \cup {chain[i].proof : i \in 1..Len(chain)}

\* the strings a client can post whatever has been posted before: any version,
\* any deadline, a previous field naming no canary or the string's own hash
Drafts ==
    [version : {CanaryVersion, OtherVersion},
     deadline : 1..MaxDeadline,
     prev : {HashString(EmptyProof), OwnHash}]
        \cup {Garbage}

\* the strings a client can post: the drafts, and strings naming a posted one
Postable ==
    Drafts \cup [version : {CanaryVersion, OtherVersion},
                 deadline : 1..MaxDeadline,
                 prev : {HashString(x) : x \in Posted}]

Init ==
    /\ latestProof = EmptyProof
    /\ latestCanary = Nil
    /\ wmu = NoLocker
    /\ readers = {}
    /\ now = 0
    /\ store = <<>>
    /\ pc = [p \in Submitters \cup Readers |-> "idle"]
    /\ proof = [p \in Submitters |-> EmptyProof]
    /\ verdict = [p \in Submitters |-> "none"]
    /\ tipAtLock = [p \in Submitters |-> EmptyTip]
    /\ err = [p \in Submitters |-> "none"]
    /\ resp = [r \in Readers |-> "none"]
    /\ chain = <<>>
    /\ calls = 0

\* ------------------------------------------------------------------- clock
Tick ==
    /\ now < MaxTime
    /\ now' = now + 1
    /\ UNCHANGED <<latestProof, latestCanary, wmu, readers, store, pc, proof,
                   verdict, tipAtLock, err, resp, chain, calls>>

\* ----------------------------------------------------------- SubmitHandler
\* line 103
VersionOk(canary) == canary.version = CanaryVersion

\* line 110: time.Now().After(canary.Deadline.Time()) rejects
DeadlineInFuture(clock, canary) == ~(clock > canary.deadline)

\* lines 120-121 with After() replaced by "not Before()": an equal deadline passes
DeadlineIncreasesOrEqual(canary) ==
    latestCanary # Nil => canary.deadline >= latestCanary.deadline

\* lines 120-121
DeadlineIncreases(canary) ==
    latestCanary # Nil => canary.deadline > latestCanary.deadline

\* lines 128-130 without the guard of line 128: the hash is compared on an
\* empty chain too
LinkageOkUnguarded(str, canary) == HashString(str) = canary.previous

\* lines 128-130
LinkageOk(str, canary) ==
    latestProof # EmptyProof => HashString(str) = canary.previous

\* lines 97-113: what the handler answers before it takes the lock; "none" when
\* the string verifies, has the supported version and passes the clock check
PreLockVerdict(str, clock) ==
    IF ~Verifies(str) THEN "VerifyFailed"
    ELSE IF ~VersionOk(OpenProof(str)) THEN "UnsupportedVersion"
    ELSE IF ~DeadlineInFuture(clock, OpenProof(str)) THEN "DeadlineNotFuture"
    ELSE "none"

\* lines 95-113: parse and verify, version check, future check.  A request that
\* is turned away for its version or its deadline returns at once and leaves
\* nothing behind; one that passes goes on to Lock().  After a failed OpenProof
\* the handler answers (line 99) and, there being no return, goes on to line
\* 103 with the canary OpenProof gave back.  Idle invocations are alike, so a
\* request takes the first.
Receive(s, str) ==
    /\ pc[s] = "idle"
    /\ \A t \in Submitters : t < s => pc[t] # "idle"
    /\ calls < MaxCalls
    /\ calls' = calls + 1
    /\ IF PreLockVerdict(str, now) = "VerifyFailed"
         THEN /\ proof' = [proof EXCEPT ![s] = str]
              /\ pc' = [pc EXCEPT ![s] = "deref"]
         ELSE IF PreLockVerdict(str, now) # "none"
         THEN UNCHANGED <<proof, pc>>
         ELSE /\ proof' = [proof EXCEPT ![s] = str]
              /\ pc' = [pc EXCEPT ![s] = "lock"]
    /\ UNCHANGED <<latestProof, latestCanary, wmu, readers, now, store, verdict,
                   tipAtLock, err, resp, chain>>

\* a client posts a string
Submit(s) == \E str \in Postable : Receive(s, str)

\* line 103 after a failed OpenProof: canary is nil, canary.Version panics and
\* the handler is unwound; it holds no lock and has written nothing
VersionDeref(s) ==
    /\ pc[s] = "deref"
    /\ pc' = [pc EXCEPT ![s] = "idle"]
    /\ proof' = [proof EXCEPT ![s] = EmptyProof]
    /\ UNCHANGED <<latestProof, latestCanary, wmu, readers, now, store, verdict,
                   tipAtLock, err, resp, chain, calls>>

\* line 116 with RLock() in place of Lock(): the submitter does not shut the
\* readers out
LockBeginShared(s) ==
    /\ pc[s] = "lock"
    /\ wmu = NoLocker
    /\ pc' = [pc EXCEPT ![s] = "drain"]
    /\ UNCHANGED <<latestProof, latestCanary, wmu, readers, now, store, proof,
                   verdict, tipAtLock, err, resp, chain, calls>>

\* line 116, first half: Lock() takes the writers' mutex; from here on RLock() blocks
LockBegin(s) ==
    /\ pc[s] = "lock"
    /\ wmu = NoLocker
    /\ wmu' = s
    /\ pc' = [pc EXCEPT ![s] = "drain"]
    /\ UNCHANGED <<latestProof, latestCanary, readers, now, store, proof,
                   verdict, tipAtLock, err, resp, chain, calls>>

\* lines 119-134: the monotonic deadline check, then the linkage check, against
\* the tip; "none" when both pass
ChainVerdict(str, canary) ==
    IF ~DeadlineIncreases(canary) THEN "DeadlineNotIncreasing"
    ELSE IF ~LinkageOk(str, canary) THEN "BrokenLinkage"
    ELSE "none"

\* lines 116-134 with lines 143-144 moved up, before the save
LockCheckAndCommit(s) ==
    /\ pc[s] = "drain"
    /\ readers = {}
    /\ tipAtLock' = [tipAtLock EXCEPT ![s] = Tip]
    /\ verdict' = [verdict EXCEPT ![s] = ChainVerdict(proof[s], OpenProof(proof[s]))]
    /\ pc' = [pc EXCEPT ![s] = IF verdict'[s] = "none" THEN "save" ELSE "release"]
    /\ latestProof' = IF verdict'[s] = "none" THEN proof[s] ELSE latestProof
    /\ latestCanary' = IF verdict'[s] = "none" THEN OpenProof(proof[s]) ELSE latestCanary
    /\ UNCHANGED <<wmu, readers, now, store, proof, err, resp, chain, calls>>

\* line 116, second half: Lock() returns when the active readers have left;
\* lines 119-134: the checks against the tip
LockAndCheck(s) ==
    /\ pc[s] = "drain"
    /\ readers = {}
    /\ tipAtLock' = [tipAtLock EXCEPT ![s] = Tip]
    /\ verdict' = [verdict EXCEPT ![s] = ChainVerdict(proof[s], OpenProof(proof[s]))]
    /\ pc' = [pc EXCEPT ![s] = IF verdict'[s] = "none" THEN "save" ELSE "release"]
    /\ UNCHANGED <<latestProof, latestCanary, wmu, readers, now, store, proof,
                   err, resp, chain, calls>>

\* lines 137-142: SaveToDirectory succeeds
SaveOk(s) ==
    /\ pc[s] = "save"
    /\ store' = Append(store, proof[s])
    /\ err' = [err EXCEPT ![s] = "nil"]
    /\ pc' = [pc EXCEPT ![s] = "commitProof"]
    /\ UNCHANGED <<latestProof, latestCanary, wmu, readers, now, proof,
                   verdict, tipAtLock, resp, chain, calls>>

\* lines 137-142 without the return of line 141: the handler answers 500 and
\* goes on to lines 143-146
SaveFailNoReturn(s) ==
    /\ pc[s] = "save"
    /\ err' = [err EXCEPT ![s] = "error"]
    /\ verdict' = [verdict EXCEPT ![s] = "PersistFailed"]
    /\ pc' = [pc EXCEPT ![s] = "commitProof"]
    /\ UNCHANGED <<latestProof, latestCanary, wmu, readers, now, store, proof,
                   tipAtLock, resp, chain, calls>>

\* lines 137-142 with the cached tip dropped when the store fails
SaveFailReset(s) ==
    /\ pc[s] = "save"
    /\ err' = [err EXCEPT ![s] = "error"]
    /\ verdict' = [verdict EXCEPT ![s] = "PersistFailed"]
    /\ pc' = [pc EXCEPT ![s] = "release"]
    /\ latestProof' = EmptyProof
    /\ latestCanary' = Nil
    /\ UNCHANGED <<wmu, readers, now, store, proof, tipAtLock, resp, chain, calls>>

\* lines 137-142: SaveToDirectory fails
SaveFail(s) ==
    /\ pc[s] = "save"
    /\ err' = [err EXCEPT ![s] = "error"]
    /\ verdict' = [verdict EXCEPT ![s] = "PersistFailed"]
    /\ pc' = [pc EXCEPT ![s] = "release"]
    /\ UNCHANGED <<latestProof, latestCanary, wmu, readers, now, store, proof, tipAtLock, resp, chain, calls>>

\* line 143 with the canary encoded anew in place of the submitted string
CommitProofReencoded(s) ==
    /\ pc[s] = "commitProof"
    /\ latestProof' = [version |-> OpenProof(proof[s]).version,
                       deadline |-> OpenProof(proof[s]).deadline,
                       prev |-> OpenProof(proof[s]).previous]
    /\ pc' = [pc EXCEPT ![s] = "commitCanary"]
    /\ UNCHANGED <<latestCanary, wmu, readers, now, store, proof,
                   verdict, tipAtLock, err, resp, chain, calls>>

\* line 143
CommitProof(s) ==
    /\ pc[s] = "commitProof"
    /\ latestProof' = proof[s]
    /\ pc' = [pc EXCEPT ![s] = "commitCanary"]
    /\ UNCHANGED <<latestCanary, wmu, readers, now, store, proof,
                   verdict, tipAtLock, err, resp, chain, calls>>

\* lines 144-146 without the assignment of line 144
CommitCanarySkipped(s) ==
    /\ pc[s] = "commitCanary"
    /\ verdict' = [verdict EXCEPT ![s] = IF @ = "none" THEN "Accept" ELSE @]
    /\ chain' = Append(chain, [proof |-> proof[s], at |-> now])
    /\ pc' = [pc EXCEPT ![s] = "release"]
    /\ UNCHANGED <<latestProof, latestCanary, wmu, readers, now, store, proof,
                   tipAtLock, err, resp, calls>>

\* lines 144-146; of the statuses a handler writes, the first one stands
CommitCanary(s) ==
    /\ pc[s] = "commitCanary"
    /\ latestCanary' = OpenProof(proof[s])
    /\ verdict' = [verdict EXCEPT ![s] = IF @ = "none" THEN "Accept" ELSE @]
    /\ chain' = Append(chain, [proof |-> proof[s], at |-> now])
    /\ pc' = [pc EXCEPT ![s] = "release"]
    /\ UNCHANGED <<latestProof, wmu, readers, now, store, proof, tipAtLock, err, resp, calls>>

\* line 117 without defer, Unlock() called once after line 146: the returns
\* of lines 123, 132 and 141 leave the lock held
UnlockOnAcceptOnly(s) ==
    /\ pc[s] = "release"
    /\ wmu' = IF verdict[s] = "Accept" THEN NoLocker ELSE wmu
    /\ pc' = [pc EXCEPT ![s] = "idle"]
    /\ proof' = [proof EXCEPT ![s] = EmptyProof]
    /\ verdict' = [verdict EXCEPT ![s] = "none"]
    /\ tipAtLock' = [tipAtLock EXCEPT ![s] = EmptyTip]
    /\ err' = [err EXCEPT ![s] = "none"]
    /\ UNCHANGED <<latestProof, latestCanary, readers, now, store, resp, chain,
                   calls>>

\* line 117: the deferred Unlock() runs as the handler returns; its locals are gone
Unlock(s) ==
    /\ pc[s] = "release"
    /\ wmu' = NoLocker
    /\ pc' = [pc EXCEPT ![s] = "idle"]
    /\ proof' = [proof EXCEPT ![s] = EmptyProof]
    /\ verdict' = [verdict EXCEPT ![s] = "none"]
    /\ tipAtLock' = [tipAtLock EXCEPT ![s] = EmptyTip]
    /\ err' = [err EXCEPT ![s] = "none"]
    /\ UNCHANGED <<latestProof, latestCanary, readers, now, store, resp, chain,
                   calls>>

\* ------------------------------------------- StatusHandler, LatestHandler
\* the handlers reading without the lock
CanRLockAlways == TRUE

\* RLock() returns unless a writer is inside Lock()..Unlock()
CanRLock == wmu = NoLocker

\* lines 49-67: status.Enabled, read under the read lock
StatusServe(r) ==
    /\ pc[r] = "idle"
    /\ CanRLock
    /\ readers' = readers \cup {r}
    /\ resp' = [resp EXCEPT ![r] = [enabled |-> latestProof # EmptyProof]]
    /\ pc' = [pc EXCEPT ![r] = "runlock"]
    /\ UNCHANGED <<latestProof, latestCanary, wmu, now, store, proof,
                   verdict, tipAtLock, err, chain, calls>>

\* lines 77-84: the latest proof, or no content, read under the read lock
LatestServe(r) ==
    /\ pc[r] = "idle"
    /\ CanRLock
    /\ readers' = readers \cup {r}
    /\ resp' = [resp EXCEPT ![r] =
                  IF latestProof = EmptyProof THEN [nocontent |-> TRUE]
                                              ELSE [body |-> latestProof]]
    /\ pc' = [pc EXCEPT ![r] = "runlock"]
    /\ UNCHANGED <<latestProof, latestCanary, wmu, now, store, proof,
                   verdict, tipAtLock, err, chain, calls>>

\* lines 50 and 78: the deferred RUnlock()
RUnlock(r) ==
    /\ pc[r] = "runlock"
    /\ readers' = readers \ {r}
    /\ pc' = [pc EXCEPT ![r] = "idle"]
    /\ resp' = [resp EXCEPT ![r] = "none"]
    /\ UNCHANGED <<latestProof, latestCanary, wmu, now, store, proof,
                   verdict, tipAtLock, err, chain, calls>>

Next ==
    \/ Tick
    \/ \E s \in Submitters : Submit(s)
    \/ \E s \in Submitters : VersionDeref(s)
    \/ \E s \in Submitters : LockBegin(s)
    \/ \E s \in Submitters : LockAndCheck(s)
    \/ \E s \in Submitters : SaveOk(s)
    \/ \E s \in Submitters : SaveFail(s)
    \/ \E s \in Submitters : CommitProof(s)
    \/ \E s \in Submitters : CommitCanary(s)
    \/ \E s \in Submitters : Unlock(s)
    \/ \E r \in Readers : StatusServe(r)
    \/ \E r \in Readers : LatestServe(r)
    \/ \E r \in Readers : RUnlock(r)

Spec == Init /\ [][Next]_vars

\* a running handler goes on running, SaveToDirectory returns, and Lock() is
\* granted to a submitter that keeps asking for it (sync.Mutex hands the lock
\* to a starved waiter)
Fairness ==
    /\ \A s \in Submitters :
         /\ WF_vars(VersionDeref(s))
         /\ SF_vars(LockBegin(s))
         /\ WF_vars(LockAndCheck(s))
         /\ WF_vars(SaveOk(s) \/ SaveFail(s))
         /\ WF_vars(CommitProof(s))
         /\ WF_vars(CommitCanary(s))
         /\ WF_vars(Unlock(s))
    /\ \A r \in Readers : WF_vars(RUnlock(r))

\* the handlers under fair scheduling, for LiveCalls submissions
SubmitBounded(s) == calls < LiveCalls /\ Submit(s)

LiveNext ==
    \/ Tick
    \/ \E s \in Submitters : SubmitBounded(s)
    \/ \E s \in Submitters : VersionDeref(s)
    \/ \E s \in Submitters : LockBegin(s)
    \/ \E s \in Submitters : LockAndCheck(s)
    \/ \E s \in Submitters : SaveOk(s)
    \/ \E s \in Submitters : SaveFail(s)
    \/ \E s \in Submitters : CommitProof(s)
    \/ \E s \in Submitters : CommitCanary(s)
    \/ \E s \in Submitters : Unlock(s)
    \/ \E r \in Readers : StatusServe(r)
    \/ \E r \in Readers : LatestServe(r)
    \/ \E r \in Readers : RUnlock(r)

FairSpec == Init /\ [][LiveNext]_vars /\ Fairness

\* ------------------------------------------------------------------ claims
\* the canary a submitter's string carries
Cand(s) == OpenProof(proof[s])

\* s has taken the write lock and run the checks against the tip
Checked(s) == pc[s] \in {"save", "commitProof", "commitCanary", "release"}

\* the tip s found when it took the lock was a populated one
FoundTip(s) == tipAtLock[s][1] # EmptyProof /\ tipAtLock[s][2] # Nil

Deadline(str) == OpenProof(str).deadline

\* C1: linkage integrity.  On a populated chain a submission is accepted only
\* if its previous field is the hash of the tip it replaces; one whose previous
\* field differs is rejected, the tip unchanged; so every accepted statement
\* after the first names the hash of its predecessor's document.
C1_LinkageIntegrity ==
    /\ \A s \in Submitters :
         (Checked(s) /\ FoundTip(s)
             /\ Cand(s).previous # HashString(tipAtLock[s][1]))
         => /\ pc[s] = "release"
            /\ verdict[s] \in {"DeadlineNotIncreasing", "BrokenLinkage"}
            /\ Tip = tipAtLock[s]
    /\ \A n \in 2..Len(chain) :
         OpenProof(chain[n].proof).previous = HashString(chain[n - 1].proof)

\* C2: a legitimate extension is accepted.  On a populated chain a candidate of
\* the supported version, with a deadline after the clock and after the tip's
\* and a previous field equal to the hash of the tip's document, is accepted
\* when the save succeeds, and the tip becomes the candidate.
C2_LegitimateExtensionAccepted ==
    \A s \in Submitters :
        (pc[s] = "release" /\ FoundTip(s)
            /\ VersionOk(Cand(s))
            /\ Cand(s).deadline > now
            /\ Cand(s).deadline > tipAtLock[s][2].deadline
            /\ Cand(s).previous = HashString(tipAtLock[s][1])
            /\ verdict[s] # "PersistFailed")
        => /\ verdict[s] = "Accept"
           /\ Tip = <<proof[s], Cand(s)>>

\* C3: monotonic deadlines.  The deadlines of the accepted statements increase
\* strictly, and a candidate whose deadline is not after the tip's is rejected
\* with DeadlineNotIncreasing, the tip unchanged.
C3_MonotonicDeadlines ==
    /\ \A n \in 2..Len(chain) : Deadline(chain[n].proof) > Deadline(chain[n - 1].proof)
    /\ \A s \in Submitters :
         (Checked(s) /\ FoundTip(s)
             /\ Cand(s).deadline <= tipAtLock[s][2].deadline)
         => /\ pc[s] = "release"
            /\ verdict[s] = "DeadlineNotIncreasing"
            /\ Tip = tipAtLock[s]

\* a chain of two, and a third candidate turned away for its deadline
C3_Witness ==
    /\ Len(chain) >= 2
    /\ \E s \in Submitters :
         pc[s] = "release" /\ verdict[s] = "DeadlineNotIncreasing"
\* a populated chain, and a candidate turned away for its linkage
C4_Witness ==
    \E s \in Submitters :
        pc[s] = "release" /\ verdict[s] = "BrokenLinkage" /\ FoundTip(s)

Failures ==
    {"VerifyFailed", "UnsupportedVersion", "DeadlineNotFuture",
     "DeadlineNotIncreasing", "BrokenLinkage", "PersistFailed"}

\* C4: no partial state on rejection.  A submission that is answered with a
\* rejection or with PersistFailed returns with both halves of the tip as they
\* were when it took the lock; and no request writes the tip in the step that
\* receives it, where the rejections made before the lock are answered.
C4_NoPartialState ==
    [][/\ \A s \in Submitters :
            (pc[s] = "release" /\ pc'[s] # "release" /\ verdict[s] \in Failures)
            => (Tip = tipAtLock[s] /\ Tip' = Tip)
       /\ calls' # calls => Tip' = Tip]_vars

\* C5: commit after persist.  A failed save is answered PersistFailed with the
\* tip unchanged; a successful one makes the candidate the tip; and the tip is
\* not written while the save has not returned success.
C5_CommitAfterPersist ==
    \A s \in Submitters :
        /\ (pc[s] = "release" /\ err[s] = "error")
           => (verdict[s] = "PersistFailed" /\ Tip = tipAtLock[s])
        /\ (pc[s] = "release" /\ verdict[s] = "PersistFailed") => err[s] = "error"
        /\ (pc[s] = "release" /\ err[s] = "nil")
           => (verdict[s] = "Accept" /\ Tip = <<proof[s], Cand(s)>>)
        /\ (Checked(s) /\ Tip # tipAtLock[s])
           => (err[s] = "nil" /\ store # <<>> /\ store[Len(store)] = proof[s])

\* a populated chain, and a valid candidate whose save failed
C5_Witness ==
    \E s \in Submitters :
        pc[s] = "release" /\ verdict[s] = "PersistFailed" /\ FoundTip(s)

\* the tip as the last commit left it
CommittedProof == IF chain = <<>> THEN EmptyProof ELSE chain[Len(chain)].proof

\* both halves of the tip belong to the same submission
TipWhole ==
    \/ latestProof = EmptyProof /\ latestCanary = Nil
    \/ latestProof # EmptyProof /\ latestCanary = OpenProof(latestProof)

\* C6: readers never see torn state.  While a status or latest read holds the
\* read lock the two halves of the tip belong together, and what the read
\* returns is the tip as the last completed commit left it.
C6_NoTornRead ==
    \A r \in Readers :
        pc[r] = "runlock"
        => /\ TipWhole
           /\ latestProof = CommittedProof
           /\ resp[r] \in {[enabled |-> CommittedProof # EmptyProof],
                            IF CommittedProof = EmptyProof
                                THEN [nocontent |-> TRUE]
                                ELSE [body |-> CommittedProof]}

\* a read of a populated tip while a submission waits for the readers to leave
C6_Witness ==
    \E r \in Readers, s \in Submitters :
        /\ pc[r] = "runlock"
        /\ pc[s] = "drain"
        /\ resp[r] = [body |-> latestProof]
        /\ chain # <<>>

\* C7: empty-chain acceptance.  A candidate of the supported version with a
\* deadline after the clock passes the checks made before the lock; finding the
\* chain empty it is turned away neither for its deadline order nor for its
\* linkage, whatever its previous field, and it is accepted and becomes the tip
\* when the save succeeds.
C7_EmptyChainAcceptance ==
    /\ \A str \in Drafts :
         (Verifies(str) /\ VersionOk(OpenProof(str)) /\ OpenProof(str).deadline > now)
         => PreLockVerdict(str, now) = "none"
    /\ \A s \in Submitters :
         (Checked(s) /\ tipAtLock[s] = EmptyTip)
         => /\ verdict[s] \notin {"DeadlineNotIncreasing", "BrokenLinkage"}
            /\ (pc[s] = "release" /\ err[s] = "nil")
               => (verdict[s] = "Accept" /\ Tip = <<proof[s], Cand(s)>>)

\* a first canary accepted although its previous field is the hash of no canary
C7_Witness ==
    \E s \in Submitters :
        /\ pc[s] = "release"
        /\ verdict[s] = "Accept"
        /\ tipAtLock[s] = EmptyTip
        /\ proof[s].prev = HashString(EmptyProof)

\* C8: the future-deadline check is strict.  A candidate whose deadline is not
\* strictly after the clock, one whose deadline equals it included, is
\* rejected with DeadlineNotFuture.
C8_StrictFutureDeadline ==
    [][\A s \in Submitters, str \in Postable :
           (Verifies(str) /\ VersionOk(OpenProof(str))
               /\ ~(OpenProof(str).deadline > now) /\ Receive(s, str))
           => (PreLockVerdict(str, now) = "DeadlineNotFuture" /\ pc'[s] = "idle")]_vars

\* C9: the deadline is in the future at the moment of acceptance.  Every
\* accepted statement's deadline is strictly later than the clock at the
\* instant it was committed as the tip.
C9_FutureAtAcceptance ==
    \A n \in 1..Len(chain) : Deadline(chain[n].proof) > chain[n].at

\* C10: validation order.  The first failing check names the rejection: an
\* unsupported version whatever else is wrong, then a deadline not after the
\* clock, one equal to it included, then a deadline not after the tip's even
\* when the linkage is broken too, and BrokenLinkage only when the three checks
\* before it passed; so a submission goes on to the checks against the tip
\* only with the supported version and a deadline after the clock.
C10_ValidationOrder ==
    [][/\ \A s \in Submitters, str \in Postable :
            (Verifies(str) /\ Receive(s, str))
            => /\ ~VersionOk(OpenProof(str))
                  => /\ PreLockVerdict(str, now) = "UnsupportedVersion"
                     /\ pc'[s] = "idle"
               /\ (VersionOk(OpenProof(str)) /\ OpenProof(str).deadline <= now)
                  => /\ PreLockVerdict(str, now) = "DeadlineNotFuture"
                     /\ pc'[s] = "idle"
       /\ \A s \in Submitters :
            /\ (pc[s] = "idle" /\ pc'[s] = "lock")
               => /\ VersionOk(OpenProof(proof'[s]))
                  /\ Deadline(proof'[s]) > now
            /\ (Checked(s) /\ tipAtLock[s][2] # Nil
                   /\ Cand(s).deadline <= tipAtLock[s][2].deadline)
               => verdict[s] = "DeadlineNotIncreasing"
            /\ (Checked(s) /\ verdict[s] = "BrokenLinkage")
               => /\ VersionOk(Cand(s))
                  /\ tipAtLock[s][2] # Nil
                     => Cand(s).deadline > tipAtLock[s][2].deadline]_vars

\* C11: a failed decode or verification is terminal.  A handler that is past
\* line 100 holds a string that verified: one that did not never reaches the
\* version check or the checks after it; and no string that did not verify is
\* saved or becomes the tip.
C11_DecodeFailureTerminal ==
    /\ \A s \in Submitters : pc[s] # "idle" => Verifies(proof[s])
    /\ \A i \in 1..Len(store) : Verifies(store[i])
    /\ latestProof # EmptyProof => Verifies(latestProof)

\* s holds a valid extension of the populated tip it found: the supported
\* version, a deadline after the tip's, the hash of the tip's document
ValidExtension(s) ==
    /\ Checked(s)
    /\ FoundTip(s)
    /\ VersionOk(Cand(s))
    /\ Cand(s).deadline > tipAtLock[s][2].deadline
    /\ Cand(s).previous = HashString(tipAtLock[s][1])

InValidation(s) ==
    pc[s] \in {"lock", "drain", "save", "commitProof", "commitCanary", "release"}

\* C13: mutual exclusion of validation through commit.  From the start of a
\* submission's validation until its commit or rejection no other submission is
\* validating, saving or committing and no read holds the tip, so that two
\* submissions never validate against the same tip.
C13_MutualExclusion ==
    \A s \in Submitters :
        InValidation(s)
        => /\ \A t \in Submitters \ {s} : ~InValidation(t)
           /\ readers = {}

\* the document the last successful save wrote
StoredTip == IF store = <<>> THEN EmptyProof ELSE store[Len(store)]

\* a read holds the read lock, or RLock() would return at once
Observable == readers # {} \/ wmu = NoLocker

\* C14: the tip never diverges from the store.  In every state in which a read
\* can observe the tip, the tip's document is the one the most recent
\* successful save wrote (none when nothing was saved), and so is what a read
\* holding the lock has returned.
C14_TipIsStored ==
    /\ Observable => latestProof = StoredTip
    /\ \A r \in Readers :
         pc[r] = "runlock"
         => resp[r] \in {[enabled |-> StoredTip # EmptyProof],
                          IF StoredTip = EmptyProof THEN [nocontent |-> TRUE]
                                                    ELSE [body |-> StoredTip]}

\* a read returned the second saved document while a submission that has
\* passed the checks waits to save the third
C14_Witness ==
    \E r \in Readers, s \in Submitters :
        /\ pc[r] = "runlock"
        /\ Len(store) >= 2
        /\ resp[r] = [body |-> store[Len(store)]]
        /\ pc[s] \in {"lock", "drain"}

\* C15: the tip is never removed or rewound.  No step empties a populated half
\* of the tip; a step that changes a half puts a statement of a strictly
\* greater deadline in its place, and never the document of a statement
\* accepted earlier.
C15_TipNeverRewound ==
    [][/\ latestProof # EmptyProof
          => /\ latestProof' # EmptyProof
             /\ latestProof' # latestProof
                => Deadline(latestProof') > Deadline(latestProof)
       /\ latestCanary # Nil
          => /\ latestCanary' # Nil
             /\ latestCanary' # latestCanary
                => latestCanary'.deadline > latestCanary.deadline
       /\ latestProof' # latestProof
          => \A i \in 1..Len(chain) : chain[i].proof # latestProof']_vars

\* a tip that replaced an earlier one, and the earlier one's document posted
\* again and turned away
C15_Witness ==
    /\ Len(chain) >= 2
    /\ latestProof = chain[Len(chain)].proof
    /\ Deadline(latestProof) > Deadline(chain[1].proof)
    /\ \E s \in Submitters :
         pc[s] = "release" /\ proof[s] = chain[1].proof /\ verdict[s] # "Accept"

\* r holds the answer of a latest-canary read
LatestAnswered(r) ==
    pc[r] = "runlock" /\ DOMAIN resp[r] \in {{"body"}, {"nocontent"}}

\* C16: verbatim republication.  What a latest-canary read returns is the
\* string of the most recently accepted submission as it was posted, which is
\* the string last given to the save; with nothing accepted yet it is no
\* content.
C16_VerbatimRepublication ==
    \A r \in Readers :
        LatestAnswered(r)
        => IF chain = <<>>
             THEN resp[r] = [nocontent |-> TRUE]
             ELSE /\ resp[r] = [body |-> chain[Len(chain)].proof]
                  /\ store # <<>>
                  /\ resp[r].body = store[Len(store)]

\* a latest-canary read returning the second accepted string, one that
\* carries its own hash
C16_Witness ==
    \E r \in Readers :
        /\ LatestAnswered(r)
        /\ Len(chain) >= 2
        /\ resp[r] = [body |-> chain[Len(chain)].proof]
        /\ resp[r].body.prev = OwnHash

\* the write lock is held by the submitter between Lock() and Unlock() and by
\* no other; the read lock by the reads between RLock() and RUnlock()
LocksHeld ==
    /\ \A s \in Submitters :
         wmu = s <=> pc[s] \in {"drain", "save", "commitProof", "commitCanary", "release"}
    /\ \A r \in Readers : r \in readers <=> pc[r] = "runlock"

\* C17: exclusive access is always released.  A handler that has returned holds
\* no lock; and, the save returning, every submission and every read that has
\* begun completes, and the write lock, once taken, is free again, so that a
\* read waiting in RLock() is let in.
C17_LockReleased ==
    /\ []LocksHeld
    /\ \A s \in Submitters : (pc[s] # "idle") ~> (pc[s] = "idle")
    /\ \A r \in Readers : (pc[r] # "idle") ~> (pc[r] = "idle")
    /\ (wmu # NoLocker) ~> (wmu = NoLocker)

\* each way out of the locked section being taken: a submitter about to
\* unlock after a rejection for its linkage, with another waiting in Lock()
C17_Witness ==
    \E s, t \in Submitters :
        /\ pc[s] = "release"
        /\ verdict[s] \in {"DeadlineNotIncreasing", "BrokenLinkage", "PersistFailed"}
        /\ wmu = s
        /\ pc[t] = "lock"

\* s is in, or has returned from, its call of SaveToDirectory
SaveCalled(s) ==
    \/ pc[s] \in {"save", "commitProof", "commitCanary"}
    \/ pc[s] = "release" /\ err[s] # "none"

\* the submissions whose save has returned success and that have not returned
Saved == {s \in Submitters : pc[s] \in {"commitProof", "commitCanary"}
                                \/ (pc[s] = "release" /\ err[s] = "nil")}

\* C18: persistence is invoked only for validated candidates.  The save is
\* called with the write lock held, for a string that verified, of the
\* supported version, and, on a populated chain, with a deadline after the
\* tip's and a previous field equal to the hash of the tip's document; the
\* store holds one document for each submission that got that far, none for
\* a rejected one.
C18_PersistOnlyValidated ==
    /\ \A s \in Submitters :
         SaveCalled(s)
         => /\ wmu = s
            /\ Verifies(proof[s])
            /\ VersionOk(Cand(s))
            /\ FoundTip(s)
               => /\ Cand(s).deadline > tipAtLock[s][2].deadline
                  /\ Cand(s).previous = HashString(tipAtLock[s][1])
    /\ Len(store) <= calls
    /\ Len(store) = Len(chain)
          + Cardinality({s \in Saved : chain = <<>> \/ chain[Len(chain)].proof # proof[s]})

\* C19 as stated: in every reachable state latestCanary is nil if and only if
\* latestProof is the empty string.
C19_HalvesEmptyTogether ==
    latestCanary = Nil <=> latestProof = EmptyProof

\* C19 amended: latestCanary is nil if and only if latestProof is the empty
\* string in every state but the one between the assignments of lines 143 and
\* 144, so whenever a read can hold the lock and in every tip a submission
\* found on taking the write lock: the deadline check, the linkage check and
\* the readers' test agree on whether the chain is empty.
C19_EmptyTogetherOutsideCommit ==
    /\ (\A s \in Submitters : pc[s] # "commitCanary")
       => (latestCanary = Nil <=> latestProof = EmptyProof)
    /\ Observable => (latestCanary = Nil <=> latestProof = EmptyProof)
    /\ \A s \in Submitters :
         Checked(s) => (tipAtLock[s][2] = Nil <=> tipAtLock[s][1] = EmptyProof)

\* a populated tip found by a submission that passed both guarded checks,
\* with the first commit behind
C19_Witness ==
    /\ Len(chain) = 1
    /\ latestCanary # Nil
    /\ latestProof # EmptyProof
    /\ \E s \in Submitters : pc[s] = "save" /\ FoundTip(s)
====
